---- MODULE Spec2Model ----
(***************************************************************************)
(* In-place rolling update of a MachineDeployment (machine-controller-     *)
(* manager): rolloutAutoInPlace and rolloutManualInPlace with the steps    *)
(* they call.  One reconciliation pass is one action; the remote calls of  *)
(* a pass that fail are an input of the pass (a fault plan), so a pass     *)
(* that is cut short by a failed call is a behaviour of the model.         *)
(***************************************************************************)
EXTENDS Integers, Sequences, FiniteSets, TLC

\* ------------------------------------------------------------------ bounds
NumMachines == 3
NumOldSets == 2
\* passes of one behaviour in which remote calls fail
MaxFaultyPasses == 1
\* machines without a node, and machines that are not available at the same time
MaxUnbacked == 1
MaxNotReady == 1
\* the largest maxUnavailable of the deployment
MaxMaxUnavailable == 2
\* how far the user lowers the desired replicas of the deployment
MaxScaleDown == 1

Machines == 1..NumMachines
\* machine sets are numbered by creation timestamp, the new one is the youngest
OldSets == 1..NumOldSets
NewSet == NumOldSets + 1
Sets == 1..NewSet

\* ------------------------------------------------------------ label keys
LabelKeyMachineCandidateForUpdate == "candidate-for-update"
LabelKeyMachineSelectedForUpdate == "selected-for-update"
LabelKeyMachineUpdateSuccessful == "update-successful"
NodeLabelKey == "node"
TemplateHashKey == "machine-template-hash"

\* errors returned by the remote calls
NoErr == "nil"
ErrPatchMachine == "PatchMachine failed"
ErrScale == "scale failed"
ErrUncordon == "failed to uncordon the node"
ErrNodeUpdate == "node update failed"
ErrList == "list failed"

\* ---------------------------------------------------------- label maps
NoLabels == [k \in {} |-> "x"]
Label(k, v) == [x \in {k} |-> v]

\* MergeStringMaps(a, b): b's entries over a's
MergeStringMaps(a, b) ==
  [k \in (DOMAIN a) \cup (DOMAIN b) |-> IF k \in DOMAIN b THEN b[k] ELSE a[k]]

\* the labels of current without the keys of the old selector, then the new selector's
MergeWithOverwriteAndFilter(current, oldSel, newSel) ==
  MergeStringMaps([k \in (DOMAIN current) \ (DOMAIN oldSel) |-> current[k]], newSel)

\* map[key] of Go: the empty string when the key is absent
Get(lbls, k) == IF k \in DOMAIN lbls THEN lbls[k] ELSE ""

\* labels.SelectorFromSet(sel).Matches(lbls)
Matches(lbls, sel) == \A k \in DOMAIN sel : k \in DOMAIN lbls /\ lbls[k] = sel[k]

\* is.Spec.Selector.MatchLabels of machine set g
Selector(g) == Label(TemplateHashKey, ToString(g))
NodeName(m) == ToString(m)

\* ------------------------------------------------------------------ sums
RECURSIVE SumOver(_, _)
SumOver(S, f) ==
  IF S = {} THEN 0 ELSE LET x == CHOOSE y \in S : TRUE IN f[x] + SumOver(S \ {x}, f)

Min(a, b) == IF a < b THEN a ELSE b
Range(s) == {s[i] : i \in DOMAIN s}
Perms(S) == {s \in [1..Cardinality(S) -> S] : Range(s) = S}
\* the orders in which a lister returns the machines and the nodes
ListOrders == {[i \in Machines |-> i], [i \in Machines |-> NumMachines + 1 - i]}

\* ------------------------------------------------------------------ state
VARIABLES deployment, replicas, machines, nodes, available, faultyPasses, last
vars == <<deployment, replicas, machines, nodes, available, faultyPasses, last>>

\* the objects a pass reads and writes
Cluster == [replicas |-> replicas, machines |-> machines, nodes |-> nodes]

\* ------------------------------------------------------------ fault plans
\* A remote call is named by its kind and the object it is made on; the calls of a
\* pass that are in its fault plan fail.
Fault(kind, x) == <<kind, x>>

\* ---------------------------------------------------------- remote calls
\* machineControl.PatchMachine with a labels patch: a merge patch of metadata.labels
PatchMachine(c, m, lbls) ==
  [c EXCEPT !.machines[m].labels = MergeStringMaps(@, lbls)]

\* machineControl.PatchMachine with the ownerReferences and the labels in one patch
PatchMachineOwner(c, m, owner, lbls) ==
  [c EXCEPT !.machines[m] = [owner |-> owner, labels |-> MergeStringMaps(@.labels, lbls)]]

\* machineLister.List(selector), in the order the lister returns the machines
ListMachines(c, sel, order) ==
  SelectSeq(order, LAMBDA m : Matches(c.machines[m].labels, sel))

\* nodeLister.List(selector)
ListNodes(c, sel, order) ==
  SelectSeq(order, LAMBDA n : c.nodes[n].exists /\ Matches(c.nodes[n].labels, sel))

\* getMachineFromNode: the machines of the list whose node label names the node
getMachineFromNode(c, machineList, n) ==
  {m \in Range(machineList) : Get(c.machines[m].labels, NodeLabelKey) = NodeName(n)}

\* scaleMachineSetAndRecordEvent(is, newScale): no call when the scale is the same
scaleMachineSetAndRecordEvent(c, g, cur, newScale, faults) ==
  IF cur = newScale THEN [c |-> c, scaled |-> FALSE, err |-> NoErr]
  ELSE IF Fault("scale", g) \in faults THEN [c |-> c, scaled |-> FALSE, err |-> ErrScale]
  ELSE [c |-> [c EXCEPT !.replicas[g] = newScale], scaled |-> TRUE, err |-> NoErr]

\* ------------------------------------------- labelNodesBackingMachineSets
\* the node of a machine that was patched
labelNode(c, m, faults) ==
  IF ~c.nodes[m].exists THEN [c |-> c, err |-> NoErr]
  ELSE IF Get(c.nodes[m].labels, LabelKeyMachineCandidateForUpdate) = "true"
    THEN [c |-> c, err |-> NoErr]
  ELSE IF Fault("updateNode", m) \in faults THEN [c |-> c, err |-> ErrNodeUpdate]
  ELSE [c |-> [c EXCEPT !.nodes[m].labels =
                 MergeStringMaps(@, Label(LabelKeyMachineCandidateForUpdate, "true"))],
        err |-> NoErr]

\* one machine of the list: the machine patch, then the node's label
labelNodeBackingMachine(c, m, faults) ==
  IF Get(c.machines[m].labels, NodeLabelKey) = "" THEN [c |-> c, err |-> NoErr]
  ELSE IF Fault("patchCandidate", m) \in faults THEN [c |-> c, err |-> ErrPatchMachine]
  ELSE labelNode(PatchMachine(c, m,
                   MergeStringMaps(c.machines[m].labels,
                                   Label(LabelKeyMachineCandidateForUpdate, "true"))),
                 m, faults)

RECURSIVE labelMachineList(_, _, _, _)
labelMachineList(r, list, j, faults) ==
  IF r.err # NoErr \/ j > Len(list) THEN r
  ELSE labelMachineList(labelNodeBackingMachine(r.c, list[j], faults), list, j + 1, faults)

RECURSIVE labelMachineSets(_, _, _, _, _)
labelMachineSets(r, machineSets, i, order, faults) ==
  IF r.err # NoErr \/ i > Len(machineSets) THEN r
  ELSE labelMachineSets(
         labelMachineList(r, ListMachines(r.c, Selector(machineSets[i]), order), 1, faults),
         machineSets, i + 1, order, faults)

labelNodesBackingMachineSets(c, machineSets, order, faults) ==
  labelMachineSets([c |-> c, err |-> NoErr], machineSets, 1, order, faults)

\* ------------------------------------------ reconcileNewMachineSetInPlace
\* ctx: what a pass holds in memory.  replicas0 and available0 are Spec.Replicas and
\* Status.AvailableReplicas of the machine set objects the pass was called with,
\* desired is deployment.Spec.Replicas, order is the listers' order.

\* the loop state before the first old machine set
TransferStart(c) ==
  [c |-> c, added |-> 0, transferred |-> 0, moved |-> {}, done |-> FALSE,
   scaled |-> FALSE, err |-> NoErr, comp |-> "none", failedAt |-> 0, failedIs |-> 0,
   sources |-> {}]

\* a return statement of reconcileNewMachineSetInPlace
TransferReturn(st, c, scaled, err, comp) ==
  [st EXCEPT !.c = c, !.done = TRUE, !.scaled = scaled, !.err = err, !.comp = comp]

\* machineNewLabels, had it left the labels of the old selector in place
machineNewLabelsKeepingSelector(lbls, is, newIS) ==
  MergeStringMaps(lbls, Label(LabelKeyMachineUpdateSuccessful, "true"))

\* machineNewLabels, had it reset the selection of the machine that moves
machineNewLabelsDeselecting(lbls, is, newIS) ==
  MergeStringMaps(MergeStringMaps(MergeWithOverwriteAndFilter(lbls, Selector(is), Selector(newIS)),
                                  Label(LabelKeyMachineUpdateSuccessful, "true")),
                  Label(LabelKeyMachineSelectedForUpdate, "false"))

\* the labels of a machine that moves to the new machine set
machineNewLabels(lbls, is, newIS) ==
  MergeStringMaps(MergeWithOverwriteAndFilter(lbls, Selector(is), Selector(newIS)),
                  Label(LabelKeyMachineUpdateSuccessful, "true"))

\* the scale of an old machine set after transferred machines left it
oldSetNewScale(cur, transferred) == cur - transferred

\* newSetNewScale, had it scaled to the added machines alone
newSetNewScaleFromZero(cur, added) == added

\* the scale of the new machine set after added machines joined it
newSetNewScale(cur, added) == cur + added

\* the ownership patch failed and the new machine set was scaled (up): the old one
compensateOldSet(st, is, up, down) ==
  IF down.err # NoErr
    THEN TransferReturn(st, down.c, st.added > 0, ErrPatchMachine, "downFailed")
    ELSE TransferReturn(st, down.c, up.scaled, ErrPatchMachine, "ok")

compensateNewSet(st, is, up, ctx) ==
  IF up.err # NoErr THEN TransferReturn(st, up.c, st.added > 0, up.err, "upFailed")
  ELSE compensateOldSet(st, is, up,
         scaleMachineSetAndRecordEvent(up.c, is, ctx.replicas0[is],
           oldSetNewScale(ctx.replicas0[is], st.transferred), ctx.faults))

\* transferPatchFailed, had it scaled the new machine set by the machines that left
\* the current old machine set alone
transferPatchFailedCountingOneSet(st, is, m, ctx) ==
  compensateNewSet([st EXCEPT !.failedAt = m, !.failedIs = is], is,
    scaleMachineSetAndRecordEvent(st.c, NewSet, ctx.replicas0[NewSet],
      newSetNewScale(ctx.replicas0[NewSet], st.transferred), ctx.faults),
    ctx)

\* the ownership patch of machine m failed: scale to what was transferred so far
transferPatchFailed(st, is, m, ctx) ==
  compensateNewSet([st EXCEPT !.failedAt = m, !.failedIs = is], is,
    scaleMachineSetAndRecordEvent(st.c, NewSet, ctx.replicas0[NewSet],
      newSetNewScale(ctx.replicas0[NewSet], st.added), ctx.faults),
    ctx)

\* the ownership patch of machine m succeeded: uncordon its node n
transferPatched(st, n, ctx) ==
  IF Fault("uncordon", n) \in ctx.faults
    THEN TransferReturn(st, st.c, FALSE, ErrUncordon, "none")
    ELSE [st EXCEPT !.c.nodes[n].unschedulable = FALSE,
                    !.transferred = @ + 1, !.added = @ + 1]

transferMachine(st, is, m, n, ctx) ==
  IF Fault("patchOwner", m) \in ctx.faults THEN transferPatchFailed(st, is, m, ctx)
  ELSE transferPatched(
         [st EXCEPT !.c = PatchMachineOwner(st.c, m, NewSet,
                            machineNewLabels(st.c.machines[m].labels, is, NewSet)),
                    !.moved = @ \cup {m}, !.sources = @ \cup {is}],
         n, ctx)

\* the machines of the list that the node backs
transferFound(st, is, found, n, ctx) ==
  IF found = {} THEN st ELSE transferMachine(st, is, CHOOSE x \in found : TRUE, n, ctx)

\* one node that carries update-successful
transferNode(st, is, machineList, n, ctx) ==
  transferFound(st, is, getMachineFromNode(st.c, machineList, n), n, ctx)

RECURSIVE transferNodes(_, _, _, _, _, _)
transferNodes(st, is, machineList, nodeList, j, ctx) ==
  IF st.done \/ j > Len(nodeList) THEN st
  ELSE transferNodes(transferNode(st, is, machineList, nodeList[j], ctx),
                     is, machineList, nodeList, j + 1, ctx)

\* the scale down of an old machine set after its nodes
scaledDownOldSet(st, down) ==
  IF down.err # NoErr THEN TransferReturn(st, down.c, st.added > 0, down.err, "none")
  ELSE [st EXCEPT !.c = down.c]

scaleDownOldSet(st, is, ctx) ==
  IF st.done THEN st
  ELSE scaledDownOldSet(st,
         scaleMachineSetAndRecordEvent(st.c, is, ctx.replicas0[is],
           oldSetNewScale(ctx.replicas0[is], st.transferred), ctx.faults))

\* startOldSet, had the count been kept from one old machine set to the next
startOldSetKeepingCount(st) == st

\* transfferedMachineCount starts at 0 for every old machine set
startOldSet(st) == [st EXCEPT !.transferred = 0]

\* one old machine set: its machines, the updated nodes, then its scale down
transferFromOldSet(st, is, ctx) ==
  IF Fault("list", is) \in ctx.faults THEN TransferReturn(st, st.c, FALSE, ErrList, "none")
  ELSE scaleDownOldSet(
         transferNodes(startOldSet(st), is,
                       ListMachines(st.c, Selector(is), ctx.order),
                       ListNodes(st.c, Label(LabelKeyMachineUpdateSuccessful, "true"), ctx.order),
                       1, ctx),
         is, ctx)

RECURSIVE transferFromOldSets(_, _, _, _)
transferFromOldSets(st, oldISs, i, ctx) ==
  IF st.done \/ i > Len(oldISs) THEN st
  ELSE transferFromOldSets(transferFromOldSet(st, oldISs[i], ctx), oldISs, i + 1, ctx)

\* a scale call whose results are the results of reconcileNewMachineSetInPlace
returnScaled(st, r) == TransferReturn(st, r.c, r.scaled, r.err, "none")

\* the scale up of the new machine set after all old machine sets
scaleUpNewSet(st, ctx) ==
  IF st.done THEN st
  ELSE returnScaled(st,
         scaleMachineSetAndRecordEvent(st.c, NewSet, ctx.replicas0[NewSet],
           newSetNewScale(ctx.replicas0[NewSet], st.added), ctx.faults))

\* reconcileNewMachineSetInPlace, had it not looked at the replicas of the new machine
\* set before the transfer
reconcileNewMachineSetInPlaceUnconditionally(c, oldISs, ctx) ==
  scaleUpNewSet(transferFromOldSets(TransferStart(c), oldISs, 1, ctx), ctx)

reconcileNewMachineSetInPlace(c, oldISs, ctx) ==
  IF ctx.replicas0[NewSet] = ctx.desired
    THEN TransferReturn(TransferStart(c), c, FALSE, NoErr, "none")
  ELSE IF ctx.replicas0[NewSet] > ctx.desired
    THEN returnScaled(TransferStart(c),
           scaleMachineSetAndRecordEvent(c, NewSet, ctx.replicas0[NewSet],
                                         ctx.desired, ctx.faults))
  ELSE scaleUpNewSet(transferFromOldSets(TransferStart(c), oldISs, 1, ctx), ctx)

\* ------------------------------------------------ selection for update
\* FilterActiveMachineSets: the machine sets with Spec.Replicas > 0
FilterActiveMachineSets(iSs, ctx) == SelectSeq(iSs, LAMBDA g : ctx.replicas0[g] > 0)

GetReplicaCountForMachineSets(iSs, ctx) == SumOver(Range(iSs), ctx.replicas0)
GetAvailableReplicaCountForMachineSets(iSs, ctx) == SumOver(Range(iSs), ctx.available0)

\* SortByCreationTimestamp, had it sorted the youngest machine set first
RECURSIVE SortByCreationTimestampDescending(_)
SortByCreationTimestampDescending(S) ==
  IF S = {} THEN <<>>
  ELSE LET g == CHOOSE x \in S : \A y \in S : x >= y
       IN <<g>> \o SortByCreationTimestampDescending(S \ {g})

\* MachineSetsByCreationTimestamp: ascending
RECURSIVE SortByCreationTimestamp(_)
SortByCreationTimestamp(S) ==
  IF S = {} THEN <<>>
  ELSE LET g == CHOOSE x \in S : \A y \in S : x <= y
       IN <<g>> \o SortByCreationTimestamp(S \ {g})

\* getMachinesUndergoingUpdate, had it found no machine
getMachinesUndergoingUpdateOfNone(c, oldISs, ctx) == 0

getMachinesUndergoingUpdate(c, oldISs, ctx) ==
  SumOver(Range(oldISs),
          [g \in Sets |-> Len(ListMachines(c, MergeStringMaps(Selector(g),
                            Label(LabelKeyMachineSelectedForUpdate, "true")), ctx.order))])

\* takeForDrain, had it returned no machine
takeForDrainNone(list, readyForDrain) == <<>>

\* takeForDrain, had the list not been cut
takeForDrainAll(list, readyForDrain) == list

\* the first readyForDrain machines of the list, or all of it
takeForDrain(list, readyForDrain) ==
  IF Len(list) > readyForDrain THEN SubSeq(list, 1, readyForDrain) ELSE list

getMachinesForDrain(c, is, readyForDrain, ctx) ==
  LET listed == ListMachines(c, MergeStringMaps(Selector(is),
                  Label(LabelKeyMachineCandidateForUpdate, "true")), ctx.order)
      machinesWithoutSelectedForUpdate ==
        SelectSeq(listed, LAMBDA m :
                    LabelKeyMachineSelectedForUpdate \notin DOMAIN c.machines[m].labels)
  IN takeForDrain(machinesWithoutSelectedForUpdate, readyForDrain)

\* sel: [c, count, selected, err], the patches of one list
RECURSIVE patchSelectedForUpdate(_, _, _, _)
patchSelectedForUpdate(sel, list, j, ctx) ==
  IF j > Len(list) THEN sel
  ELSE LET m == list[j]
       IN IF Fault("patchSelected", m) \in ctx.faults THEN [sel EXCEPT !.err = ErrPatchMachine]
          ELSE patchSelectedForUpdate(
                 [sel EXCEPT !.c = PatchMachine(sel.c, m,
                                     MergeStringMaps(sel.c.machines[m].labels,
                                       Label(LabelKeyMachineSelectedForUpdate, "true"))),
                             !.count = @ + 1, !.selected = @ \cup {m}],
                 list, j + 1, ctx)

\* labelMachinesToSelectedForUpdate, had it scaled the machine set to newScale as well
labelMachinesToSelectedForUpdateScaling(sel, is, newScale, ctx) ==
  patchSelectedForUpdate([sel EXCEPT !.count = 0, !.c.replicas[is] = newScale],
                         getMachinesForDrain(sel.c, is, ctx.replicas0[is] - newScale, ctx),
                         1, ctx)

labelMachinesToSelectedForUpdate(sel, is, newScale, ctx) ==
  LET readyForDrain == ctx.replicas0[is] - newScale
  IN patchSelectedForUpdate([sel EXCEPT !.count = 0],
                            getMachinesForDrain(sel.c, is, readyForDrain, ctx), 1, ctx)

\* readyForUpdateCount, had the budget been left out
readyForUpdateCountOfSet(targetReplicas, remaining) == targetReplicas

\* how many machines of a machine set to select, given what the budget still allows
readyForUpdateCount(targetReplicas, remaining) == Min(targetReplicas, remaining)

\* the machines of one old machine set were labelled: add them to totalReadyForUpdate
addSelected(r) == [r EXCEPT !.total = @ + r.count]

\* sel.total is totalReadyForUpdate
RECURSIVE selectFromOldSets(_, _, _, _, _)
selectFromOldSets(sel, oldISs, i, totalReadyForUpdateCount, ctx) ==
  IF i > Len(oldISs) \/ sel.err # NoErr THEN sel
  ELSE IF sel.total >= totalReadyForUpdateCount THEN sel
  ELSE IF ctx.replicas0[oldISs[i]] = 0
    THEN selectFromOldSets(sel, oldISs, i + 1, totalReadyForUpdateCount, ctx)
  ELSE IF ctx.replicas0[oldISs[i]]
            - readyForUpdateCount(ctx.replicas0[oldISs[i]], totalReadyForUpdateCount - sel.total)
          > ctx.replicas0[oldISs[i]]
    THEN [sel EXCEPT !.err = "invalid request", !.total = 0]
  ELSE selectFromOldSets(
         addSelected(labelMachinesToSelectedForUpdate(sel, oldISs[i],
           ctx.replicas0[oldISs[i]]
             - readyForUpdateCount(ctx.replicas0[oldISs[i]],
                                   totalReadyForUpdateCount - sel.total),
           ctx)),
         oldISs, i + 1, totalReadyForUpdateCount, ctx)

SelectStart(c) == [c |-> c, count |-> 0, total |-> 0, selected |-> {}, err |-> NoErr]

\* availableMachineCount of selectMachineForUpdate
availableMachineCount(allISs, oldISsMachinesUndergoingUpdate, ctx) ==
  GetAvailableReplicaCountForMachineSets(allISs, ctx) - oldISsMachinesUndergoingUpdate

selectMachineForUpdate(c, allISs, oldISs, oldISsMachinesUndergoingUpdate, ctx) ==
  IF availableMachineCount(allISs, oldISsMachinesUndergoingUpdate, ctx)
       <= ctx.desired - ctx.maxUnavailable
    THEN SelectStart(c)
    ELSE selectFromOldSets(SelectStart(c), SortByCreationTimestamp(Range(oldISs)), 1,
           availableMachineCount(allISs, oldISsMachinesUndergoingUpdate, ctx)
             - (ctx.desired - ctx.maxUnavailable),
           ctx)

\* the budget gate of reconcileOldMachineSetsInPlace
maxUpdatePossible(c, allISs, oldISs, ctx) ==
  GetReplicaCountForMachineSets(allISs, ctx) - (ctx.desired - ctx.maxUnavailable)
    - (ctx.replicas0[NewSet] - ctx.available0[NewSet])
    - getMachinesUndergoingUpdate(c, oldISs, ctx)

\* the results of selectMachineForUpdate as reconcileOldMachineSetsInPlace returns them
selectionResult(r) ==
  [c |-> r.c, progress |-> r.err = NoErr /\ r.total > 0, selected |-> r.selected,
   err |-> r.err]

\* returns [c, progress, selected, err]
reconcileOldMachineSetsInPlace(c, allISs, oldISs, ctx) ==
  IF GetReplicaCountForMachineSets(oldISs, ctx) = 0
    THEN [c |-> c, progress |-> FALSE, selected |-> {}, err |-> NoErr]
  ELSE IF maxUpdatePossible(c, allISs, oldISs, ctx) <= 0
    THEN [c |-> c, progress |-> FALSE, selected |-> {}, err |-> NoErr]
  ELSE selectionResult(selectMachineForUpdate(c, allISs, oldISs,
                         getMachinesUndergoingUpdate(c, oldISs, ctx), ctx))

\* ------------------------------- getAndLabelMachinesSelectedForUpdate
\* the node of machine m is found and carries selected-for-update
nodeMarked(c, m) ==
  /\ Get(c.machines[m].labels, NodeLabelKey) # ""
  /\ c.nodes[m].exists
  /\ LabelKeyMachineSelectedForUpdate \in DOMAIN c.nodes[m].labels

\* the machines of one machine set whose node carries selected-for-update
RECURSIVE labelMarkedMachines(_, _, _, _)
labelMarkedMachines(sel, list, j, ctx) ==
  IF j > Len(list) \/ sel.err # NoErr THEN sel
  ELSE IF ~nodeMarked(sel.c, list[j]) THEN labelMarkedMachines(sel, list, j + 1, ctx)
  ELSE IF Fault("patchSelected", list[j]) \in ctx.faults
    THEN [sel EXCEPT !.err = ErrPatchMachine, !.total = 0]
  ELSE labelMarkedMachines(
         [sel EXCEPT !.c = PatchMachine(sel.c, list[j],
                             MergeStringMaps(sel.c.machines[list[j]].labels,
                               Label(LabelKeyMachineSelectedForUpdate, "true"))),
                     !.total = @ + 1, !.selected = @ \cup {list[j]}],
         list, j + 1, ctx)

RECURSIVE labelMarkedInSets(_, _, _, _)
labelMarkedInSets(sel, iSs, i, ctx) ==
  IF i > Len(iSs) \/ sel.err # NoErr THEN sel
  ELSE IF ctx.replicas0[iSs[i]] = 0 THEN labelMarkedInSets(sel, iSs, i + 1, ctx)
  ELSE labelMarkedInSets(
         labelMarkedMachines(sel, ListMachines(sel.c, Selector(iSs[i]), ctx.order), 1, ctx),
         iSs, i + 1, ctx)

\* returns [c, progress, selected, err]; progress is isMachineSelectedForUpdate
getAndLabelMachinesSelectedForUpdate(c, iSs, ctx) ==
  selectionResult(labelMarkedInSets(SelectStart(c), iSs, 1, ctx))

\* ------------------------------------------------------------ the passes
\* Status.AvailableReplicas of machine set g: its machines that are available
AvailableReplicas(g) ==
  Cardinality({m \in Machines : Matches(machines[m].labels, Selector(g)) /\ available[m]})

\* MachineDeploymentComplete(d, &d.Status): every machine of the deployment is updated
\* and available, and there are as many as desired
MachineDeploymentComplete ==
  /\ Cardinality({m \in Machines : Matches(machines[m].labels, Selector(NewSet))})
       = deployment.replicas
  /\ Cardinality({m \in Machines : \E g \in Sets : Matches(machines[m].labels, Selector(g))})
       = deployment.replicas
  /\ SumOver(Sets, [g \in Sets |-> AvailableReplicas(g)]) = deployment.replicas

\* what the pass holds in memory when it starts
PassContext(order, faults) ==
  [replicas0 |-> replicas,
   available0 |-> [g \in Sets |-> AvailableReplicas(g)],
   desired |-> deployment.replicas,
   maxUnavailable |-> deployment.maxUnavailable,
   order |-> order, faults |-> faults]

\* what a pass did, kept for the next state
NoPass(kind) ==
  [kind |-> kind, err |-> NoErr, transferErr |-> NoErr, scaledUp |-> FALSE, moved |-> {},
   added |-> 0, transferred |-> 0, comp |-> "none", failedAt |-> 0, failedIs |-> 0,
   sources |-> {}, selectionRan |-> FALSE, progress |-> FALSE, selected |-> {},
   selectErr |-> NoErr, synced |-> FALSE, completionChecked |-> FALSE]

TransferObs(kind, t) ==
  [NoPass(kind) EXCEPT !.err = t.err, !.transferErr = t.err, !.scaledUp = t.scaled,
                       !.moved = t.moved, !.added = t.added, !.transferred = t.transferred,
                       !.comp = t.comp, !.failedAt = t.failedAt, !.failedIs = t.failedIs,
                       !.sources = t.sources]

\* proceedToSelection, had the scaledUp flag been ignored
proceedToSelectionWhenNoError(t) == t.err = NoErr

\* the pass goes on to selection only when the transfer step returned no error and
\* did not scale
proceedToSelection(t) == t.err = NoErr /\ ~t.scaled

\* the pass ends after the transfer step; status is synced unless it returned an error
endAfterTransfer(kind, t) ==
  [c |-> t.c, obs |-> [TransferObs(kind, t) EXCEPT !.synced = t.err = NoErr]]

\* reachesCompletionCheck, had the pass gone on after a selection that made progress
reachesCompletionCheckAfterProgress(o, err) == err = NoErr

\* the pass gets to the MachineDeploymentComplete check, and to the cleanup behind it,
\* when the selection step returned no error, or one that is only logged, and no progress
reachesCompletionCheck(o, err) == err = NoErr /\ ~o.progress

\* the pass ends after the selection step
endAfterSelection(kind, t, o, err) ==
  [c |-> o.c,
   obs |-> [TransferObs(kind, t) EXCEPT !.selectionRan = TRUE, !.err = err,
                                        !.progress = o.progress, !.selected = o.selected,
                                        !.selectErr = o.err, !.synced = err = NoErr,
                                        !.completionChecked = reachesCompletionCheck(o, err)]]

autoReconciledOld(t, o) == endAfterSelection("auto", t, o, o.err)

autoReconciledNew(t, oldISs, ctx) ==
  IF ~proceedToSelection(t) THEN endAfterTransfer("auto", t)
  ELSE autoReconciledOld(t,
         reconcileOldMachineSetsInPlace(t.c, Append(oldISs, NewSet),
                                        FilterActiveMachineSets(oldISs, ctx), ctx))

autoLabelled(l, oldISs, ctx) ==
  IF l.err # NoErr THEN [c |-> l.c, obs |-> [NoPass("auto") EXCEPT !.err = l.err]]
  ELSE autoReconciledNew(reconcileNewMachineSetInPlace(l.c, oldISs, ctx), oldISs, ctx)

\* rolloutAutoInPlace, had the candidates been labelled at the end of the pass
rolloutAutoInPlaceLabellingLast(c, oldISs, ctx) ==
  LET r == autoReconciledNew(reconcileNewMachineSetInPlace(c, oldISs, ctx), oldISs, ctx)
      l == labelNodesBackingMachineSets(r.c, oldISs, ctx.order, ctx.faults)
  IN IF r.obs.err # NoErr THEN r ELSE [c |-> l.c, obs |-> [r.obs EXCEPT !.err = l.err]]

\* returns [c, obs]
rolloutAutoInPlace(c, oldISs, ctx) ==
  autoLabelled(labelNodesBackingMachineSets(c, oldISs, ctx.order, ctx.faults), oldISs, ctx)

\* the error of getAndLabelMachinesSelectedForUpdate is logged, the pass goes on
manualLabelled(t, o) == endAfterSelection("manual", t, o, NoErr)

manualReconciledNew(t, oldISs, ctx) ==
  IF ~proceedToSelection(t) THEN endAfterTransfer("manual", t)
  ELSE manualLabelled(t, getAndLabelMachinesSelectedForUpdate(t.c, oldISs, ctx))

rolloutManualInPlace(c, oldISs, ctx) ==
  manualReconciledNew(reconcileNewMachineSetInPlace(c, oldISs, ctx), oldISs, ctx)

\* ------------------------------------------------------------------ Init
\* A rollout starts: every machine belongs to an old machine set and carries no
\* update-state label, the new machine set has no replicas.
InitialLabels(g, m, hasNodeLabel) ==
  IF hasNodeLabel THEN MergeStringMaps(Selector(g), Label(NodeLabelKey, NodeName(m)))
  ELSE Selector(g)

\* machines are numbered in the order of their machine sets; a machine without a
\* node either has no node label yet or names a node that is not found
InitialObjects ==
  /\ deployment \in [replicas : {NumMachines}, maxUnavailable : 1..MaxMaxUnavailable,
                     mode : {"auto", "manual"}]
  /\ deployment.mode = "manual" => deployment.maxUnavailable = 1
  /\ \E owner \in [Machines -> OldSets], unbacked \in SUBSET Machines, unlabelled \in BOOLEAN :
       /\ \A m1, m2 \in Machines : m1 <= m2 => owner[m1] <= owner[m2]
       /\ Cardinality(unbacked) <= MaxUnbacked
       /\ unbacked = {} => ~unlabelled
       /\ machines = [m \in Machines |->
            [owner |-> owner[m],
             labels |-> InitialLabels(owner[m], m, ~(m \in unbacked /\ unlabelled))]]
       /\ nodes = [m \in Machines |->
            [exists |-> m \notin unbacked, labels |-> NoLabels, unschedulable |-> FALSE]]
       /\ available = [m \in Machines |-> m \notin unbacked]
       /\ replicas = [g \in Sets |-> Cardinality({m \in Machines : owner[m] = g})]
  /\ last = NoPass("init")

Init == InitialObjects /\ faultyPasses = 0

\* --------------------------------------------------------------- actions
Carries(lbls, k) == Get(lbls, k) = "true"
InOldSet(m) == \E g \in OldSets : Matches(machines[m].labels, Selector(g))

\* the machines whose ownership patch a pass that starts here attempts
Transferable ==
  IF replicas[NewSet] >= deployment.replicas THEN {}
  ELSE {m \in Machines : /\ InOldSet(m)
                         /\ Get(machines[m].labels, NodeLabelKey) = NodeName(m)
                         /\ nodes[m].exists
                         /\ Carries(nodes[m].labels, LabelKeyMachineUpdateSuccessful)}

\* the machines a pass that starts here may patch with a label
Labellable ==
  {m \in Machines : InOldSet(m) /\ Get(machines[m].labels, NodeLabelKey) # ""}

\* The faults of a pass are drawn from the calls a pass that starts in this state can
\* make: a failing call that is never made changes nothing.
TransferFaults ==
  {Fault("patchOwner", m) : m \in Transferable} \cup {Fault("uncordon", m) : m \in Transferable}
    \cup {Fault("scale", g) : g \in {x \in Sets : Transferable # {}
                                      \/ replicas[NewSet] > deployment.replicas}}
    \cup {Fault("list", g) : g \in {x \in OldSets : Transferable # {}}}
LabelFaults ==
  IF deployment.mode = "auto"
    THEN {Fault("patchCandidate", m) : m \in Labellable}
           \cup {Fault("updateNode", m) : m \in {x \in Labellable : nodes[x].exists}}
           \cup {Fault("patchSelected", m) : m \in
                   {x \in Labellable :
                      LabelKeyMachineSelectedForUpdate \notin DOMAIN machines[x].labels}}
    ELSE {Fault("patchSelected", m) : m \in
            {x \in Labellable : /\ nodes[x].exists
                                /\ LabelKeyMachineSelectedForUpdate \in DOMAIN nodes[x].labels}}
\* no call fails, one call fails, or an ownership patch and a compensating scale call fail
FaultPlans ==
  {{}} \cup {{f} : f \in TransferFaults \cup LabelFaults}
    \cup {{Fault("patchOwner", m), Fault("scale", g)} : m \in Transferable, g \in Sets}

\* a behaviour has at most MaxFaultyPasses passes with failing calls
AllowedFaultPlans == IF faultyPasses < MaxFaultyPasses THEN FaultPlans ELSE {{}}

RolloutAutoInPlace ==
  /\ deployment.mode = "auto"
  /\ \E oldISs \in Perms(OldSets), order \in ListOrders, faults \in AllowedFaultPlans :
       \E r \in {rolloutAutoInPlace(Cluster, oldISs, PassContext(order, faults))} :
          /\ faultyPasses' = IF faults = {} THEN faultyPasses ELSE faultyPasses + 1
          /\ replicas' = r.c.replicas
          /\ machines' = r.c.machines
          /\ nodes' = r.c.nodes
          /\ last' = r.obs
  /\ UNCHANGED <<deployment, available>>

RolloutManualInPlace ==
  /\ deployment.mode = "manual"
  /\ \E oldISs \in Perms(OldSets), order \in ListOrders, faults \in AllowedFaultPlans :
       \E r \in {rolloutManualInPlace(Cluster, oldISs, PassContext(order, faults))} :
          /\ faultyPasses' = IF faults = {} THEN faultyPasses ELSE faultyPasses + 1
          /\ replicas' = r.c.replicas
          /\ machines' = r.c.machines
          /\ nodes' = r.c.nodes
          /\ last' = r.obs
  /\ UNCHANGED <<deployment, available>>

\* the manual actor marks a node for update
MarkNodeSelected(m) ==
  /\ deployment.mode = "manual"
  /\ nodes[m].exists
  /\ LabelKeyMachineSelectedForUpdate \notin DOMAIN nodes[m].labels
  /\ nodes' = [nodes EXCEPT ![m].labels =
                 MergeStringMaps(@, Label(LabelKeyMachineSelectedForUpdate, "true"))]
  /\ last' = NoPass("env")
  /\ UNCHANGED <<deployment, replicas, machines, available, faultyPasses>>

\* the update agent cordons and drains the node of a machine selected for update
AgentDrains(m) ==
  /\ Carries(machines[m].labels, LabelKeyMachineSelectedForUpdate)
  /\ nodes[m].exists
  /\ ~nodes[m].unschedulable
  /\ ~Carries(nodes[m].labels, LabelKeyMachineUpdateSuccessful)
  /\ nodes' = [nodes EXCEPT ![m].unschedulable = TRUE]
  /\ last' = NoPass("env")
  /\ UNCHANGED <<deployment, replicas, machines, available, faultyPasses>>

\* the update agent reports the node updated
AgentSucceeds(m) ==
  /\ Carries(machines[m].labels, LabelKeyMachineSelectedForUpdate)
  /\ nodes[m].exists
  /\ nodes[m].unschedulable
  /\ ~Carries(nodes[m].labels, LabelKeyMachineUpdateSuccessful)
  /\ nodes' = [nodes EXCEPT ![m].labels =
                 MergeStringMaps(@, Label(LabelKeyMachineUpdateSuccessful, "true"))]
  /\ last' = NoPass("env")
  /\ UNCHANGED <<deployment, replicas, machines, available, faultyPasses>>

\* a machine stops or starts being available (its node is not ready, or ready again)
AvailabilityChanges(m) ==
  /\ deployment.mode = "auto"
  /\ nodes[m].exists
  /\ available[m] =>
       Cardinality({x \in Machines : nodes[x].exists /\ ~available[x]}) < MaxNotReady
  /\ available' = [available EXCEPT ![m] = ~@]
  /\ last' = NoPass("env")
  /\ UNCHANGED <<deployment, replicas, machines, nodes, faultyPasses>>

Next ==
  \/ RolloutAutoInPlace
  \/ RolloutManualInPlace
  \/ \E m \in Machines : MarkNodeSelected(m)
  \/ \E m \in Machines : AgentDrains(m)
  \/ \E m \in Machines : AgentSucceeds(m)
  \/ \E m \in Machines : AvailabilityChanges(m)

Spec == Init /\ [][Next]_vars

\* the user lowers the desired replicas of the deployment
ScaleDeployment ==
  /\ deployment.replicas > NumMachines - MaxScaleDown
  /\ deployment.replicas > 1
  /\ deployment' = [deployment EXCEPT !.replicas = @ - 1]
  /\ last' = NoPass("env")
  /\ UNCHANGED <<replicas, machines, nodes, available, faultyPasses>>

NextWithScaling ==
  \/ Next
  \/ ScaleDeployment

SpecWithScaling == Init /\ [][NextWithScaling]_vars

\* The user changes the machine template: a new machine set is created without
\* replicas and the machine set that was the new one becomes the youngest old one.
\* Machine sets are numbered by age, so the machine set that was new takes the number
\* of the youngest old machine set, which is free once that one has no machine and no
\* replicas left; its machines and their nodes keep every other label they carry.
YoungestOldSet == NumOldSets

NewGeneration ==
  /\ replicas[YoungestOldSet] = 0
  /\ \A m \in Machines : machines[m].owner # YoungestOldSet
  /\ \E m \in Machines : machines[m].owner = NewSet
  /\ machines' = [m \in Machines |->
        IF machines[m].owner = NewSet
          THEN [owner |-> YoungestOldSet,
                labels |-> MergeStringMaps(machines[m].labels, Selector(YoungestOldSet))]
          ELSE machines[m]]
  /\ replicas' = [replicas EXCEPT ![YoungestOldSet] = replicas[NewSet], ![NewSet] = 0]
  /\ last' = NoPass("env")
  /\ UNCHANGED <<deployment, nodes, available, faultyPasses>>

NextWithNewGeneration ==
  \/ Next
  \/ NewGeneration

SpecWithNewGeneration == Init /\ [][NextWithNewGeneration]_vars

\* A rollout that nothing disturbs: every machine has a node and stays available, and
\* no remote call fails (no pass is left in which calls may fail).
InitUndisturbed ==
  /\ InitialObjects
  /\ \A m \in Machines : nodes[m].exists
  /\ faultyPasses = MaxFaultyPasses

NextUndisturbed ==
  \/ RolloutAutoInPlace
  \/ RolloutManualInPlace
  \/ \E m \in Machines : MarkNodeSelected(m)
  \/ \E m \in Machines : AgentDrains(m)
  \/ \E m \in Machines : AgentSucceeds(m)

\* The controller reconciles the deployment again and again (every change of an object
\* and every resync period queue a pass), the update agent works on every machine that
\* is selected, and the manual actor marks every node in the end.
\* ENABLED <<RolloutAutoInPlace>>_vars, computed from the pass
RolloutAutoInPlaceEnabled ==
  /\ deployment.mode = "auto"
  /\ \E oldISs \in Perms(OldSets), order \in ListOrders, faults \in AllowedFaultPlans :
       \E r \in {rolloutAutoInPlace(Cluster, oldISs, PassContext(order, faults))} :
          faults # {} \/ r.c # Cluster \/ r.obs # last

\* ENABLED <<RolloutManualInPlace>>_vars, computed from the pass
RolloutManualInPlaceEnabled ==
  /\ deployment.mode = "manual"
  /\ \E oldISs \in Perms(OldSets), order \in ListOrders, faults \in AllowedFaultPlans :
       \E r \in {rolloutManualInPlace(Cluster, oldISs, PassContext(order, faults))} :
          faults # {} \/ r.c # Cluster \/ r.obs # last

\* weak fairness of the passes, WF_vars(RolloutAutoInPlace) and
\* WF_vars(RolloutManualInPlace), written out: only a pass sets last.kind to its kind
PassFairness ==
  /\ []<>(~RolloutAutoInPlaceEnabled) \/ []<><<last'.kind = "auto">>_vars
  /\ []<>(~RolloutManualInPlaceEnabled) \/ []<><<last'.kind = "manual">>_vars

Fairness ==
  /\ PassFairness
  /\ \A m \in Machines : WF_vars(AgentDrains(m))
  /\ \A m \in Machines : WF_vars(AgentSucceeds(m))
  /\ \A m \in Machines : WF_vars(MarkNodeSelected(m))

SpecWithFairness == InitUndisturbed /\ [][NextUndisturbed]_vars /\ Fairness

\* ================================================================ claims
PassKinds == {"auto", "manual"}
\* the step is a reconciliation pass
PassStep == last'.kind \in PassKinds
SumReplicas == SumOver(Sets, replicas)
MinAvailable == deployment.replicas - deployment.maxUnavailable
AvailableCount == SumOver(Sets, [g \in Sets |-> AvailableReplicas(g)])
\* old machines that carry selected-for-update
InFlight ==
  {m \in Machines : InOldSet(m) /\ Carries(machines[m].labels, LabelKeyMachineSelectedForUpdate)}
\* the machines that receive selected-for-update in the step
NewlySelected ==
  {m \in Machines : /\ ~Carries(machines[m].labels, LabelKeyMachineSelectedForUpdate)
                    /\ Carries(machines'[m].labels, LabelKeyMachineSelectedForUpdate)}
\* the machines the step gives to the new machine set
Reowned == {m \in Machines : machines[m].owner # NewSet /\ machines'[m].owner = NewSet}
\* those of them that old machine set g owned
MovedFrom(g) == {m \in Reowned : machines[m].owner = g}
\* the transfer step ended without a failed list, uncordon or scale call
TransferUnbroken(l) ==
  l.transferErr = NoErr \/ (l.transferErr = ErrPatchMachine /\ l.comp = "ok")
Conserved ==
  /\ SumReplicas' = SumReplicas
  /\ SumReplicas = deployment.replicas => SumReplicas' = deployment.replicas

C2_BoundedDisruption ==
  deployment.mode = "auto" =>
    /\ Cardinality(InFlight) <= deployment.maxUnavailable
    /\ (last.kind = "auto" /\ last.selected # {})
         => AvailableCount - Cardinality(InFlight) >= MinAvailable

\* a pass selected machines and two old machines are in flight
C2_Witness ==
  /\ deployment.mode = "auto" /\ last.kind = "auto" /\ last.selected # {}
  /\ Cardinality(InFlight) = 2 /\ deployment.maxUnavailable = 2

\* the budget of a pass: available machines less those in flight less minAvailable
SelectionBudget == AvailableCount - Cardinality(InFlight) - MinAvailable
WithinBudget ==
  Cardinality(NewlySelected) <= (IF SelectionBudget > 0 THEN SelectionBudget ELSE 0)

\* C3 as claimed: in every pass of either variant the machines that newly receive
\* selected-for-update are at most availableMachineCount - minAvailable, none when
\* that is not positive.
C3_BudgetRespected == [][PassStep => WithinBudget]_vars

\* C3 amended: in every pass of the automatic variant the newly selected machines are
\* within the budget.
C3_BudgetRespectedAuto == [][(PassStep /\ deployment.mode = "auto") => WithinBudget]_vars

\* an automatic pass selected two machines at once
C3_Witness == last.kind = "auto" /\ Cardinality(last.selected) = 2

\* C4: a pass whose transfer step moved a machine or changed a replica count does not
\* run selection and labels no machine selected-for-update.
C4_NoDualProgress ==
  [][(PassStep /\ (Reowned # {} \/ replicas' # replicas))
       => (~last'.selectionRan /\ last'.selected = {} /\ NewlySelected = {})]_vars

\* a pass moved a machine while another old machine could have been selected
C4_Witness ==
  /\ last.kind \in PassKinds /\ last.moved # {} /\ last.scaledUp
  /\ \E m \in Machines : InOldSet(m) /\ m \notin InFlight

UpdateStateLabels ==
  {LabelKeyMachineCandidateForUpdate, LabelKeyMachineSelectedForUpdate,
   LabelKeyMachineUpdateSuccessful}

\* C5: no pass takes an update-state label from a machine that carries it.
C5_MonotonicLabels ==
  [][PassStep => \A m \in Machines : \A k \in UpdateStateLabels :
       Carries(machines[m].labels, k) => Carries(machines'[m].labels, k)]_vars

\* a machine was moved to the new machine set and carries all three labels there
C5_Witness ==
  \E m \in last.moved :
    /\ Matches(machines[m].labels, Selector(NewSet))
    /\ \A k \in UpdateStateLabels : Carries(machines[m].labels, k)

\* C6 as claimed: a machine receives selected-for-update only if it carries
\* candidate-for-update, and is moved to the new machine set only if it carried
\* selected-for-update.
C6_StrictOrder ==
  [][PassStep =>
       /\ \A m \in NewlySelected :
            Carries(machines'[m].labels, LabelKeyMachineCandidateForUpdate)
       /\ \A m \in Reowned :
            Carries(machines[m].labels, LabelKeyMachineSelectedForUpdate)]_vars

\* a manual pass selected a machine that does not carry candidate-for-update
C6_Witness ==
  /\ last.kind = "manual"
  /\ \E m \in last.selected :
       /\ Carries(machines[m].labels, LabelKeyMachineSelectedForUpdate)
       /\ ~Carries(machines[m].labels, LabelKeyMachineCandidateForUpdate)

\* the pass before this one ran to completion
CompletedPass == last.kind \in PassKinds /\ last.err = NoErr
\* ... without a failed call and without progress of either step
IdlePass == CompletedPass /\ last.selectErr = NoErr /\ ~last.scaledUp /\ ~last.progress

\* C7 as claimed: a pass that follows a completed pass, the external state unchanged,
\* changes nothing.
C7_Idempotence == [][(CompletedPass /\ PassStep) => Cluster' = Cluster]_vars

\* C7 amended: a pass that follows a pass which ran to completion without a failed
\* call and in which neither the transfer step nor the selection step made progress
\* changes no label, owner, node or replica count.
C7_IdempotenceAfterIdlePass == [][(IdlePass /\ PassStep) => Cluster' = Cluster]_vars

\* an idle pass ran while machines were in flight and others waited for the budget
C7_Witness ==
  /\ IdlePass /\ last.selectionRan
  /\ InFlight # {}
  /\ \E m \in Machines :
       /\ InOldSet(m) /\ m \notin InFlight
       /\ Carries(machines[m].labels, LabelKeyMachineCandidateForUpdate)

\* C8: a pass that moves machines without a failed call lowers every old machine set
\* by the machines moved from it and raises the new one by all of them; every moved
\* machine is owned and selected by the new machine set only, carries
\* update-successful, and its node is schedulable.
C8_TransferPostCondition ==
  [][(PassStep /\ last'.err = NoErr /\ Reowned # {}) =>
       /\ replicas[NewSet] < deployment.replicas
       /\ \A g \in OldSets : replicas'[g] = replicas[g] - Cardinality(MovedFrom(g))
       /\ replicas'[NewSet] = replicas[NewSet] + Cardinality(Reowned)
       /\ \A m \in Reowned :
            /\ machines'[m].owner = NewSet
            /\ Matches(machines'[m].labels, Selector(NewSet))
            /\ \A g \in OldSets : ~Matches(machines'[m].labels, Selector(g))
            /\ Carries(machines'[m].labels, LabelKeyMachineUpdateSuccessful)
            /\ ~nodes'[m].unschedulable]_vars

\* a pass moved machines of two old machine sets without a failed call
C8_Witness ==
  /\ last.kind \in PassKinds /\ last.err = NoErr
  /\ Cardinality(last.sources) = 2 /\ Cardinality(last.moved) >= 2

\* C9: when an ownership patch fails and both compensating scale calls succeed, the
\* new machine set ends higher by the machines moved in the pass, the old machine set
\* of the failed patch lower by those moved from it, the machine of the failed patch
\* is as it was, and the pass returns the error of the patch.
C9_Compensation ==
  [][(PassStep /\ last'.comp = "ok") =>
       /\ last'.added = Cardinality(Reowned)
       /\ replicas'[NewSet] = replicas[NewSet] + Cardinality(Reowned)
       /\ replicas'[last'.failedIs] =
            replicas[last'.failedIs] - Cardinality(MovedFrom(last'.failedIs))
       /\ last'.transferred = Cardinality(MovedFrom(last'.failedIs))
       /\ machines'[last'.failedAt].owner = last'.failedIs
       /\ last'.failedAt \notin Reowned
       /\ last'.err = ErrPatchMachine
       /\ ~last'.selectionRan]_vars

\* a patch failed after a machine of an earlier old machine set was moved
C9_Witness ==
  /\ last.comp = "ok" /\ last.transferred >= 1
  /\ last.added > last.transferred

\* C10 as claimed: when a compensating scale call fails the transfer step returns the
\* error of the ownership patch, with a progress flag that is true exactly when
\* addedNewReplicasCount > 0.
C10_OriginalErrorSurfaces ==
  [][(PassStep /\ last'.comp \in {"upFailed", "downFailed"}) =>
       /\ last'.transferErr = ErrPatchMachine
       /\ last'.scaledUp = (last'.added > 0)]_vars

\* the scale up of the new machine set failed after an ownership patch had failed, and
\* the transfer step returned the error of the scale call
C10_Witness ==
  /\ last.comp = "upFailed" /\ last.added >= 1
  /\ last.transferErr = ErrScale

\* the machines each machine set owns are as many as its desired replicas
Accounted ==
  \A g \in Sets : replicas[g] = Cardinality({m \in Machines : machines[m].owner = g})

\* C11 as claimed, in a state that further passes leave as it is: after a pass that
\* ran to completion without a failed call and without progress, the desired replicas
\* of all machine sets sum to the deployment's desired replicas, whatever pass was
\* aborted before.
C11_ConsistencyRestored == IdlePass => SumReplicas = deployment.replicas

\* a pass found nothing to do although the sum of the desired replicas is short and
\* no machine is left to transfer
C11_Witness ==
  /\ IdlePass /\ SumReplicas < deployment.replicas
  /\ \A m \in Machines : machines[m].owner = NewSet

\* maxUpdatePossible of the state: totalReplicas - minAvailable - newGenUnavailable
\* - oldGenInFlight
MaxUpdatePossibleNow ==
  SumReplicas - MinAvailable - (replicas[NewSet] - AvailableReplicas(NewSet))
    - Cardinality(InFlight)

\* C12: an automatic pass that reaches old-set reconciliation with
\* maxUpdatePossible <= 0 labels no machine selected-for-update, changes no replica
\* count and returns no error.
C12_BudgetGateNoOp ==
  [][(PassStep /\ last'.kind = "auto" /\ last'.selectionRan /\ MaxUpdatePossibleNow <= 0)
       => /\ NewlySelected = {} /\ last'.selected = {}
          /\ replicas' = replicas
          /\ ~last'.progress
          /\ last'.selectErr = NoErr /\ last'.err = NoErr]_vars

\* the gate closed a pass because a machine of the new machine set is not available,
\* while an old machine is an available candidate that is not selected
C12_Witness ==
  /\ last.kind = "auto" /\ last.selectionRan /\ ~last.progress /\ last.err = NoErr
  /\ MaxUpdatePossibleNow <= 0
  /\ replicas[NewSet] > AvailableReplicas(NewSet)
  /\ \E m \in Machines :
       /\ InOldSet(m) /\ available[m]
       /\ Carries(machines[m].labels, LabelKeyMachineCandidateForUpdate)
       /\ LabelKeyMachineSelectedForUpdate \notin DOMAIN machines[m].labels

\* the label keys the step before selection writes: candidate-for-update in the
\* automatic variant, none in the manual one
KeysOfLabelling(kind) == IF kind = "auto" THEN {LabelKeyMachineCandidateForUpdate} ELSE {}
\* the keys on which two label maps differ
ChangedKeys(a, b) == {k \in (DOMAIN a) \cup (DOMAIN b) : Get(a, k) # Get(b, k)}

\* C13: a pass that runs the selection step changes no replica count, no owner
\* reference and no node's cordon flag; selection adds selected-for-update to the
\* machines it selects and changes no other label.
C13_SelectionChangesOnlyLabels ==
  [][(PassStep /\ last'.selectionRan) =>
       /\ replicas' = replicas
       /\ \A m \in Machines :
            /\ machines'[m].owner = machines[m].owner
            /\ nodes'[m].unschedulable = nodes[m].unschedulable
            /\ nodes'[m].exists = nodes[m].exists
            /\ ChangedKeys(nodes[m].labels, nodes'[m].labels) \subseteq KeysOfLabelling(last'.kind)
            /\ ChangedKeys(machines[m].labels, machines'[m].labels) \ KeysOfLabelling(last'.kind)
                 \subseteq (IF m \in last'.selected
                              THEN {LabelKeyMachineSelectedForUpdate} ELSE {})
            /\ m \in last'.selected
                 => Carries(machines'[m].labels, LabelKeyMachineSelectedForUpdate)]_vars

\* a pass selected a machine while the node of another machine was cordoned
C13_Witness ==
  /\ last.kind \in PassKinds /\ last.selectionRan /\ last.selected # {}
  /\ \E m \in Machines : nodes[m].unschedulable /\ m \notin last.selected

\* the machines of old machine set g that the step selects
SelectedOf(g) == {m \in NewlySelected : Matches(machines[m].labels, Selector(g))}
\* the machines the step selects from the old machine sets older than g
SelectedBefore(g) ==
  {m \in NewlySelected :
     \E h \in OldSets : h < g /\ Matches(machines[m].labels, Selector(h))}
\* the eligible machines of g: candidates (once the pass has labelled them) that do
\* not carry selected-for-update
EligibleOf(g) ==
  {m \in Machines : /\ Matches(machines[m].labels, Selector(g))
                    /\ Carries(machines'[m].labels, LabelKeyMachineCandidateForUpdate)
                    /\ LabelKeyMachineSelectedForUpdate \notin DOMAIN machines[m].labels}
\* min(desired replicas of g, budget left by the older machine sets, eligible machines)
ShareOf(g) ==
  Min(Min(replicas[g], SelectionBudget - Cardinality(SelectedBefore(g))),
      Cardinality(EligibleOf(g)))

\* C14: in an automatic pass whose selection runs, without a failed patch, with budget
\* B = availableMachineCount - minAvailable > 0, every old machine set, taken oldest
\* first, gets min(its desired replicas, the budget the older ones left, its eligible
\* machines) new selections, and the total is at most B.
C14_OldestFirst ==
  [][(PassStep /\ last'.kind = "auto" /\ last'.selectionRan /\ last'.selectErr = NoErr
        /\ SelectionBudget > 0) =>
       /\ \A g \in OldSets : Cardinality(SelectedOf(g)) = ShareOf(g)
       /\ Cardinality(NewlySelected) <= SelectionBudget
       /\ NewlySelected = last'.selected]_vars

\* a pass with a budget of two selected the machine of the oldest machine set and one
\* of the two machines of the younger one
C14_Witness ==
  /\ last.kind = "auto" /\ Cardinality(last.selected) = 2
  /\ \E m \in last.selected : Matches(machines[m].labels, Selector(1))
  /\ \E m \in last.selected : Matches(machines[m].labels, Selector(2))
  /\ \E m \in Machines :
       /\ Matches(machines[m].labels, Selector(2)) /\ m \notin InFlight /\ available[m]
       /\ Carries(machines[m].labels, LabelKeyMachineCandidateForUpdate)

\* the pass reached reconcileNewMachineSetInPlace
TransferRan(l) == l.kind = "manual" \/ l.selectionRan \/ l.err = l.transferErr
Cordoned(ns) == {m \in Machines : ns[m].unschedulable}
\* an old machine whose node carries update-successful
AwaitsTransfer(m) ==
  /\ InOldSet(m)
  /\ Get(machines[m].labels, NodeLabelKey) = NodeName(m)
  /\ nodes[m].exists
  /\ Carries(nodes[m].labels, LabelKeyMachineUpdateSuccessful)

\* C15: Transfer precondition.  In a pass that reaches the transfer step while the new
\* machine set's replicas equal the deployment's, the step changes no replica count, no
\* owner and no cordon flag, reports no scale and no error, whatever the nodes carry.
\* While the new machine set's replicas exceed the deployment's, the step moves no
\* machine, leaves the old machine sets' replicas and the cordon flags alone, and, its
\* scale call succeeding, sets the new machine set's replicas to the deployment's and
\* ends the pass; the manual pass then changes nothing else.
C15_TransferPrecondition ==
  [][(PassStep /\ TransferRan(last')) =>
       /\ replicas[NewSet] = deployment.replicas =>
            /\ replicas' = replicas
            /\ Reowned = {} /\ last'.moved = {}
            /\ Cordoned(nodes') = Cordoned(nodes)
            /\ ~last'.scaledUp /\ last'.transferErr = NoErr
       /\ replicas[NewSet] > deployment.replicas =>
            /\ \A g \in OldSets : replicas'[g] = replicas[g]
            /\ Reowned = {} /\ last'.moved = {}
            /\ Cordoned(nodes') = Cordoned(nodes)
            /\ ~last'.selectionRan
            /\ last'.kind = "manual" => machines' = machines /\ nodes' = nodes
            /\ IF last'.transferErr = NoErr
                 THEN replicas'[NewSet] = deployment.replicas /\ last'.scaledUp
                 ELSE replicas' = replicas /\ ~last'.scaledUp]_vars

\* a pass whose transfer step ran with the new machine set at the deployment's replicas
\* while an old machine's node carried update-successful
C15_Witness ==
  /\ last.kind \in PassKinds /\ TransferRan(last)
  /\ ~last.scaledUp /\ last.err = NoErr
  /\ replicas[NewSet] = deployment.replicas
  /\ \E m \in Machines : AwaitsTransfer(m)

\* the machines the new machine set owns whose node is still cordoned
Stranded(ms, ns) == {m \in Machines : ms[m].owner = NewSet /\ ns[m].unschedulable}
OwnedBy(ms, g) == {m \in Machines : ms[m].owner = g}

\* C16, first half: a pass in which un-cordoning a node fails returns that error,
\* reports no scale, and runs neither the selection nor the status sync.
C16_UncordonFailureEndsPass ==
  [][(PassStep /\ last'.transferErr = ErrUncordon) =>
       /\ last'.err = ErrUncordon
       /\ ~last'.scaledUp /\ ~last'.selectionRan /\ ~last'.synced
       /\ NewlySelected = {}]_vars

\* C16, second half: a pass without a failed call that starts while a machine of the
\* new machine set has its node still cordoned (its un-cordon failed) ends with that
\* node un-cordoned and with every machine set's replicas equal to the machines it owns.
C16_RetryCompletesTransfer ==
  [][(PassStep /\ faultyPasses' = faultyPasses /\ last'.err = NoErr
        /\ Stranded(machines, nodes) # {}) =>
       /\ Stranded(machines', nodes') = {}
       /\ \A g \in Sets : replicas'[g] = Cardinality(OwnedBy(machines', g))]_vars

\* a pass completed without error and without progress, and a machine of the new
\* machine set is still cordoned and counted by its old machine set
C16_Witness ==
  /\ IdlePass
  /\ \E m \in Stranded(machines, nodes) :
        /\ Carries(nodes[m].labels, LabelKeyMachineUpdateSuccessful)
        /\ replicas[NewSet] < Cardinality(OwnedBy(machines, NewSet))

\* the machine sets whose selector the labels of machine m match
ClaimantsOf(m) == {g \in Sets : Matches(machines[m].labels, Selector(g))}

\* C17: Single claimant at every state.  Every machine's labels match the selector of
\* exactly one machine set, the one its owner reference names; this holds as well in
\* the states a pass leaves behind when it is cut short between two of its calls.
C17_SingleClaimant ==
  \A m \in Machines : ClaimantsOf(m) = {machines[m].owner}

\* a pass was cut short right after an ownership patch: the machine has moved, its
\* node is not yet un-cordoned and no machine set is scaled for it
C17_Witness ==
  /\ last.kind \in PassKinds
  /\ last.transferErr = ErrUncordon
  /\ \E m \in last.moved : machines[m].owner = NewSet /\ nodes[m].unschedulable

\* the machines that have been transferred: only the ownership patch writes the
\* machine's update-successful label
Migrated == {m \in Machines : Carries(machines[m].labels, LabelKeyMachineUpdateSuccessful)}

\* C18: Migrated machines are not touched again.  No pass labels a machine that has
\* been transferred selected-for-update, transfers it again, or lowers a machine set's
\* replicas for it, whatever its node carries and whichever machine set is the new one.
C18_MigratedNotTouchedAgain ==
  [][PassStep =>
       /\ Migrated \cap NewlySelected = {}
       /\ Migrated \cap Reowned = {}
       /\ Migrated \cap last'.moved = {}
       /\ (\E g \in Sets : replicas'[g] < replicas[g]) => Reowned \ Migrated # {}]_vars

\* after a change of the template a machine transferred in the rollout before is an
\* old machine whose node still carries update-successful
C18_Witness ==
  /\ replicas[NewSet] < deployment.replicas
  /\ \E m \in Migrated : AwaitsTransfer(m) /\ ~nodes[m].unschedulable

\* C19: Completion gating of cleanup.  A pass gets to the completeness check, behind
\* which the annotation is removed and the old machine sets are cleaned up, only when
\* the transfer step and the selection step returned no progress and no error that ends
\* the pass; a pass that gets there with the deployment complete has changed nothing;
\* and a pass syncs the status exactly when it returns without error.
C19_CompletionGating ==
  [][PassStep =>
       /\ last'.completionChecked =>
            /\ last'.transferErr = NoErr /\ ~last'.scaledUp
            /\ last'.selectionRan /\ ~last'.progress
            /\ last'.err = NoErr
            /\ Reowned = {} /\ replicas' = replicas
       /\ (last'.completionChecked /\ MachineDeploymentComplete) => Cluster' = Cluster
       /\ last'.synced <=> last'.err = NoErr]_vars

\* a pass found the deployment complete behind both steps
C19_Witness ==
  /\ last.kind \in PassKinds /\ last.completionChecked /\ last.synced
  /\ MachineDeploymentComplete
  /\ \A m \in Machines : machines[m].owner = NewSet

\* the machines that name a node that is not found
NodeMissing == {m \in Machines : Get(machines[m].labels, NodeLabelKey) # "" /\ ~nodes[m].exists}
\* the old machines that name a node that is found
NodeFound == {m \in Machines : /\ InOldSet(m)
                                /\ Get(machines[m].labels, NodeLabelKey) # ""
                                /\ nodes[m].exists}

\* C20, what the code keeps of it: a pass without a failed call returns no error
\* whether or not a node is missing, moves no machine whose node is missing, and in
\* the automatic variant leaves every old machine whose node is found, and its node,
\* labelled candidate-for-update.
C20_MissingNodeTolerated ==
  [][(PassStep /\ faultyPasses' = faultyPasses) =>
       /\ last'.err = NoErr /\ last'.selectErr = NoErr
       /\ NodeMissing \cap Reowned = {}
       /\ last'.kind = "auto" =>
            \A m \in NodeFound :
               /\ Carries(machines'[m].labels, LabelKeyMachineCandidateForUpdate)
               /\ Carries(nodes'[m].labels, LabelKeyMachineCandidateForUpdate)]_vars

\* C20: Missing node is skipped, not an error.  A pass without a failed call returns
\* no error, and no pass changes the labels or the owner of a machine whose node is
\* not found: it gets no update-state label and is neither selected nor transferred.
C20_MissingNodeSkipped ==
  [][PassStep =>
       /\ faultyPasses' = faultyPasses => last'.err = NoErr
       /\ \A m \in NodeMissing : machines'[m] = machines[m]]_vars

\* a machine whose node is not found has been selected for update
C20_Witness ==
  \E m \in NodeMissing :
    /\ Carries(machines[m].labels, LabelKeyMachineCandidateForUpdate)
    /\ Carries(machines[m].labels, LabelKeyMachineSelectedForUpdate)
    /\ m \in last.selected

\* the rollout is over
RolledOut ==
  /\ \A m \in Machines : machines[m].owner = NewSet
  /\ replicas[NewSet] = deployment.replicas
  /\ \A g \in OldSets : replicas[g] = 0

\* C21: Rollout eventually completes.  With fair passes and a fair update agent (and,
\* in the manual variant, a manual actor that marks every node), a rollout in which no
\* remote call fails and every machine has a node and stays available reaches a state
\* in which the new machine set owns every machine and has the deployment's replicas,
\* and every old machine set has none.
C21_RolloutCompletes == <>RolledOut

\* the last transfer of the rollout
C21_Witness ==
  /\ RolledOut
  /\ last.kind \in PassKinds /\ last.moved # {} /\ last.scaledUp

\* C22, what the code keeps of it: a pass that returns no error keeps every machine
\* set's replicas equal to the machines it owns, if they were equal before it.
C22_AccountingOfCompletedPass ==
  [][(PassStep /\ Accounted /\ last'.err = NoErr) => Accounted']_vars

\* C22: Accounting matches ownership at pass end.  A pass of either variant that starts
\* with every machine set's replicas equal to the number of machines it owns ends with
\* them equal, whether or not it returns an error.
C22_AccountingMatchesOwnership ==
  [][(PassStep /\ Accounted) => Accounted']_vars

\* a pass has moved a machine and ended with an error, and the old machine set still
\* counts the machine while the new one does not
C22_Witness ==
  /\ last.kind \in PassKinds /\ last.err # NoErr
  /\ \E m \in last.moved : machines[m].owner = NewSet
  /\ replicas[NewSet] < Cardinality(OwnedBy(machines, NewSet))
  /\ \E g \in OldSets : replicas[g] > Cardinality(OwnedBy(machines, g))

\* C23: Replica counts stay in range.  In every state the passes reach, every machine
\* set's replicas are at least 0 and the new machine set's replicas are at most the
\* deployment's.
C23_ReplicasInRange ==
  /\ \A g \in Sets : replicas[g] >= 0
  /\ replicas[NewSet] <= deployment.replicas

\* a transfer has scaled an old machine set below zero
C23_Witness ==
  /\ last.kind \in PassKinds /\ last.moved # {}
  /\ \E g \in last.sources : replicas[g] < 0

====
